---- MODULE Spec2Model ----
(***************************************************************************)
(* Life Alignment API: the POST /generate handler of app.py and the        *)
(* tolerant input parsing and priority-gap computation of                  *)
(* generate_report_json.py.                                                *)
(*                                                                         *)
(* JSON values are tagged records.  A scalar is [t, n]:                    *)
(*   "null"   None (or a key that is absent from a dict read with .get)    *)
(*   "empty"  the string ""                                                *)
(*   "int"    the integer n                                                *)
(*   "float"  the float n/10                                               *)
(*   "numstr" the string spelling the integer n, e.g. "3"                  *)
(*   "decstr" the string spelling the decimal n/10, e.g. "2.5"             *)
(*   "badstr" a non-numeric string, e.g. "abc"                             *)
(* A list is [t |-> "list", items |-> <<scalars>>]; a dict keyed by the    *)
(* sub-theme labels of a pillar is [t |-> "dict", size, items], items[i]   *)
(* being the value under the label of sub-theme i (null when that key is   *)
(* missing) and size the number of keys.                                   *)
(***************************************************************************)
EXTENDS Integers, Sequences, FiniteSets, TLC

VARIABLES
    pc,          \* position of the /generate handler / of build_pdf_report
    payload,     \* the request's JSON body (generate_report: payload, data)
    ratings,     \* normalize_inputs: ratings[pillar]
    ranks,       \* normalize_inputs: ranks[pillar]
    per_pillar,  \* find_top_gaps: per_pillar
    overall,     \* find_top_gaps: overall
    out_pdf,     \* _call_report_builder: the temp file name (0: none yet)
    pdf_path,    \* generate_report: pdf_path (0: not assigned yet)
    files,       \* the files under /tmp: name -> "none", "empty" or "pdf"
    builds,      \* times this request invoked the report builder
    sends,       \* times this request attempted an email send
    delivered,   \* content of the attachment SMTP accepted in this request
    response,    \* HTTP status of the last response (0: none yet)
    served       \* requests answered so far

vars == <<pc, payload, ratings, ranks, per_pillar, overall, out_pdf, pdf_path,
          files, builds, sends, delivered, response, served>>

-----------------------------------------------------------------------------
(* Bounds of the model *)

\* largest integer a caller supplies as a rating or a rank
MaxVal == 6
\* requests handled one after the other
MaxRequests == 2

-----------------------------------------------------------------------------
(* Canonical structure *)

PILLARS == <<"health", "wealth", "self", "social">>

PillarSet == {PILLARS[i] : i \in 1..Len(PILLARS)}

\* the number of sub-themes of each pillar
SUBTHEMES == [p \in PillarSet |-> 1..4]

\* rank -> weight; any other rank gets 1 at the point of use
RANK_WEIGHT == [r \in 1..4 |-> 5 - r]

\* Python's None for a list result; `x or y` and `not x` treat None and []
\* alike, so both are the empty sequence here
None == <<>>

-----------------------------------------------------------------------------
(* JSON values *)

Null == [t |-> "null", n |-> 0]
Empty == [t |-> "empty", n |-> 0]
BadStr == [t |-> "badstr", n |-> 0]
IntV(n) == [t |-> "int", n |-> n]
FloatV(n) == [t |-> "float", n |-> n]
NumStr(n) == [t |-> "numstr", n |-> n]
DecStr(n) == [t |-> "decstr", n |-> n]
ListV(s) == [t |-> "list", items |-> s]
DictV(k, s) == [t |-> "dict", size |-> k, items |-> s]

Absent == [t |-> "absent"]
NonDict == [t |-> "nondict"]
PillarDict(m) == [t |-> "pillars", m |-> m]

IsScalar(v) == v.t \in {"null", "empty", "int", "float", "numstr", "decstr", "badstr"}

\* a conversion either yields an integer or raises
Ok(n) == [ok |-> TRUE, v |-> n]
Raise == [ok |-> FALSE, v |-> 0]

\* truncation toward zero of n/10
Trunc10(n) == IF n >= 0 THEN n \div 10 ELSE -((-n) \div 10)

\* Python 3 round(): to the nearest integer, halves to the even one
RoundHalfEven10(n) ==
    LET f == n \div 10
        r == n - 10 * f
    IN  IF r < 5 THEN f
        ELSE IF r > 5 THEN f + 1
        ELSE IF f % 2 = 0 THEN f ELSE f + 1

\* float(v), in tenths
PyFloat(v) ==
    CASE v.t = "int" -> Ok(10 * v.n)
      [] v.t = "float" -> Ok(v.n)
      [] v.t = "numstr" -> Ok(10 * v.n)
      [] v.t = "decstr" -> Ok(v.n)
      [] OTHER -> Raise

\* int(v)
PyInt(v) ==
    CASE v.t = "int" -> Ok(v.n)
      [] v.t = "float" -> Ok(Trunc10(v.n))
      [] v.t = "numstr" -> Ok(v.n)
      [] OTHER -> Raise

\* int(float(v))
IntOfFloat(v) == IF PyFloat(v).ok THEN Ok(Trunc10(PyFloat(v).v)) ELSE Raise

\* int(round(float(v)))
IntOfRoundFloat(v) ==
    IF PyFloat(v).ok THEN Ok(RoundHalfEven10(PyFloat(v).v)) ELSE Raise

\* v in ("", None)
IsBlank(v) == v.t \in {"null", "empty"}

-----------------------------------------------------------------------------
(* Input parsing (tolerant) *)

\* one element of _as_int_list: every failure is caught and becomes 0
AsIntMutantScaled(v) ==
    IF IsBlank(v) THEN 0
    ELSE IF PyInt(v).ok THEN 5 * PyInt(v).v
    ELSE IF IntOfRoundFloat(v).ok THEN IntOfRoundFloat(v).v
    ELSE 0

AsInt(v) ==
    IF IsBlank(v) THEN 0
    ELSE IF PyInt(v).ok THEN PyInt(v).v
    ELSE IF IntOfRoundFloat(v).ok THEN IntOfRoundFloat(v).v
    ELSE 0

\* the characters a string yields when iterated: "abc" for the non-numeric
\* string, one digit for a one-digit number, "d.d" for a decimal
Chars(x) ==
    CASE x.t = "badstr" -> <<BadStr, BadStr, BadStr>>
      [] x.t = "numstr" -> <<NumStr(x.n)>>
      [] x.t = "decstr" -> <<NumStr(x.n \div 10), BadStr, NumStr(x.n % 10)>>
      [] OTHER -> <<>>

\* the elements `for v in (x or [])` visits; a non-zero number is not
\* iterable (TypeError); a dict yields its keys, which are labels
Iterable(x) ==
    CASE x.t = "list" -> [ok |-> TRUE, items |-> x.items]
      [] x.t = "dict" -> [ok |-> TRUE, items |-> [i \in 1..x.size |-> BadStr]]
      [] x.t \in {"null", "empty"} -> [ok |-> TRUE, items |-> <<>>]
      [] x.t \in {"badstr", "numstr", "decstr"} -> [ok |-> TRUE, items |-> Chars(x)]
      [] x.t \in {"int", "float"} /\ x.n = 0 -> [ok |-> TRUE, items |-> <<>>]
      [] OTHER -> [ok |-> FALSE, items |-> <<>>]

\* [raised, out]: out is the list of integers
_as_int_list(x) ==
    LET it == Iterable(x)
    IN  IF ~it.ok THEN [raised |-> TRUE, out |-> None]
        ELSE [raised |-> FALSE,
              out |-> [i \in 1..Len(it.items) |-> AsInt(it.items[i])]]

\* a list result kept only when it has four entries
Keep4(s) == IF Len(s) # 4 THEN None ELSE s

\* [raised, ratings, ranks]
Result(ra, rk) == [raised |-> FALSE, ratings |-> ra, ranks |-> rk]
Raised == [raised |-> TRUE, ratings |-> None, ranks |-> None]

\* d.get(pillar) of a top-level value known to be a dict
GetPillar(d, pillar) == d.m[pillar]

_try_new_shape(data, pillar) ==
    LET ra == IF data.ratings.t = "pillars"
              THEN _as_int_list(GetPillar(data.ratings, pillar))
              ELSE [raised |-> FALSE, out |-> None]
        rk == IF data.ranks_per_subtheme.t = "pillars"
              THEN _as_int_list(GetPillar(data.ranks_per_subtheme, pillar))
              ELSE [raised |-> FALSE, out |-> None]
    IN  IF ra.raised \/ rk.raised THEN Raised
        ELSE Result(Keep4(ra.out), Keep4(rk.out))

\* 0 if v in (None, "") else int(float(v)): the conversion is not guarded
LooseInt(v) == IF IsBlank(v) THEN Ok(0) ELSE IntOfFloat(v)

\* the four conversions of a legacy dict or of the loose keys
LooseList(items) ==
    IF \E i \in 1..4 : ~LooseInt(items[i]).ok
    THEN [raised |-> TRUE, out |-> None]
    ELSE [raised |-> FALSE, out |-> [i \in 1..4 |-> LooseInt(items[i]).v]]

\* the neutral ranks a pillar-level rank resolves to
BroadcastMutant(pr) == <<pr, pr, pr, pr>>

PillarRankRanks(pr) == <<2, 2, 2, 2>>

_try_legacy_shape(data, pillar) ==
    IF data.scores.t = "nondict" THEN Raised
    ELSE
    LET scores == IF data.scores.t = "absent" THEN DictV(0, <<Null, Null, Null, Null>>)
                  ELSE GetPillar(data.scores, pillar)
        ra == IF scores.t = "dict" /\ scores.size > 0 THEN LooseList(scores.items)
              ELSE IF scores.t = "list" /\ Len(scores.items) = 4
                   THEN _as_int_list(scores)
              ELSE [raised |-> FALSE, out |-> None]
    IN  IF ra.raised THEN Raised
        ELSE IF data.ranks.t = "nondict" THEN Raised
        ELSE
        LET pr == IF data.ranks.t = "absent" THEN Null
                  ELSE GetPillar(data.ranks, pillar)
            rk == IF pr.t # "null" /\ IsScalar(pr) /\ PyInt(pr).ok
                     /\ PyInt(pr).v \in 1..4
                  THEN PillarRankRanks(PyInt(pr).v)
                  ELSE None
        IN  Result(ra.out, rk)

_fallback_guess(data, pillar) ==
    LET ra == LooseList(data.loose[pillar])
    IN  IF ra.raised THEN Raised ELSE Result(ra.out, None)

\* Python's `a or b`
PyOr(a, b) == IF Len(a) > 0 THEN a ELSE b

\* one iteration of the loop of normalize_inputs
NormalizePillar(data, pillar) ==
    LET new == _try_new_shape(data, pillar)
        old == _try_legacy_shape(data, pillar)
        fb == _fallback_guess(data, pillar)
    IN  IF new.raised \/ old.raised \/ fb.raised THEN Raised
        ELSE
        LET r == PyOr(PyOr(new.ratings, old.ratings), fb.ratings)
            rk == PyOr(PyOr(new.ranks, old.ranks), fb.ranks)
        IN  Result(IF Len(r) # 4 THEN <<0, 0, 0, 0>> ELSE r,
                   IF Len(rk) # 4 THEN <<1, 2, 3, 4>> ELSE rk)

\* [raised, ratings, ranks] with ratings and ranks keyed by pillar
normalize_inputs(data) ==
    IF \E p \in PillarSet : NormalizePillar(data, p).raised
    THEN [raised |-> TRUE, ratings |-> <<>>, ranks |-> <<>>]
    ELSE [raised |-> FALSE,
          ratings |-> [p \in PillarSet |-> NormalizePillar(data, p).ratings],
          ranks |-> [p \in PillarSet |-> NormalizePillar(data, p).ranks]]

-----------------------------------------------------------------------------
(* Computation helpers *)

\* the maximum rating of a sub-theme (ratings are 0..5)
MaxRating == 5
\* the maximum strength, rating_to_strength(5)
MaxStrength == 25

rating_to_strength(score) == score * 5

GapMutantUnscaled(score, rank) ==
    (MaxStrength - score) * (IF rank \in DOMAIN RANK_WEIGHT THEN RANK_WEIGHT[rank] ELSE 1)

GapMutantPrecedence(score, rank) ==
    MaxRating * (IF rank \in DOMAIN RANK_WEIGHT THEN RANK_WEIGHT[rank] ELSE 1) - score

GapMutantRankAsWeight(score, rank) == (MaxRating - score) * rank

\* (5.0 - float(score)) * weight; scores are integers, so the float is exact
compute_priority_gap(score, rank) ==
    (MaxRating - score) * (IF rank \in DOMAIN RANK_WEIGHT THEN RANK_WEIGHT[rank] ELSE 1)

\* gaps of a pillar: zip(r, rk)
Gaps(ra, rk, pillar) ==
    [i \in 1..4 |-> compute_priority_gap(ra[pillar][i], rk[pillar][i])]

RECURSIVE ArgMaxLastUpTo(_, _)
ArgMaxLastUpTo(g, k) ==
    IF k = 1 THEN 1
    ELSE LET best == ArgMaxLastUpTo(g, k - 1)
         IN  IF g[k] >= g[best] THEN k ELSE best

ArgMaxMutantLast(g) == ArgMaxLastUpTo(g, Len(g)) - 1

\* np.argmax over the first k entries: the first index holding the maximum
RECURSIVE ArgMaxUpTo(_, _)
ArgMaxUpTo(g, k) ==
    IF k = 1 THEN 1
    ELSE LET best == ArgMaxUpTo(g, k - 1)
         IN  IF g[k] > g[best] THEN k ELSE best

\* int(np.argmax(gaps)), a 0-based index
ArgMax(g) == ArgMaxUpTo(g, Len(g)) - 1

Focus(pillar, idx, gap) == [pillar |-> pillar, idx |-> idx, gap |-> gap]

\* overall = ("", -1, -1.0)
NoFocus == Focus("", -1, -1)

\* the per_pillar entry of one pillar
PillarTop(ra, rk, pillar) ==
    LET gaps == Gaps(ra, rk, pillar)
        best_idx == ArgMax(gaps)
    IN  Focus(pillar, best_idx, gaps[best_idx + 1])

PerPillar(ra, rk) == [k \in 1..Len(PILLARS) |-> PillarTop(ra, rk, PILLARS[k])]

\* `overall` after the first k pillars of the loop
RECURSIVE OverallUpTo(_, _)
OverallUpTo(pp, k) ==
    IF k = 0 THEN NoFocus
    ELSE LET prev == OverallUpTo(pp, k - 1)
         IN  IF pp[k].gap > prev.gap THEN pp[k] ELSE prev

\* [per_pillar, overall]
find_top_gaps(ra, rk) ==
    LET pp == PerPillar(ra, rk)
    IN  [per_pillar |-> pp, overall |-> OverallUpTo(pp, Len(pp))]

-----------------------------------------------------------------------------
(* Payloads *)

EmailAbsent == [t |-> "absent", s |-> ""]
EmailNonString == [t |-> "int", s |-> ""]
EmailStr(s) == [t |-> "str", s |-> s]

NoLoose == [p \in PillarSet |-> <<Null, Null, Null, Null>>]

\* the JSON object {"email": "a@b"}
EmptyPayload ==
    [kind |-> "dict", email |-> EmailStr("a@b"), ratings |-> Absent,
     ranks_per_subtheme |-> Absent, scores |-> Absent, ranks |-> Absent,
     loose |-> NoLoose]

Ints == (-1..MaxVal) \cup {MaxStrength}

Scalars ==
    {IntV(n) : n \in Ints}
    \cup {Null, Empty, BadStr, FloatV(25), FloatV(-5), NumStr(3), DecStr(25), DecStr(35)}

Uniform4(v) == <<v, v, v, v>>

\* what a caller may put under ratings[pillar] or ranks_per_subtheme[pillar]
ListVals ==
    {ListV(Uniform4(v)) : v \in Scalars}
    \cup {ListV(<<>>), ListV(<<IntV(1), IntV(2), IntV(3)>>),
          ListV(<<IntV(1), IntV(2), IntV(3), IntV(4), IntV(5)>>),
          ListV(<<IntV(0), BadStr, FloatV(25), NumStr(3)>>)}

NewShapeVals ==
    ListVals \cup {Null, IntV(0), IntV(3), BadStr, DecStr(25),
                   DictV(4, Uniform4(IntV(3)))}

\* what a caller may put under scores[pillar]
LegacyScoreVals ==
    {DictV(4, Uniform4(v)) : v \in Scalars}
    \cup {ListV(Uniform4(v)) : v \in Scalars}
    \cup {DictV(0, Uniform4(Null)), DictV(1, Uniform4(Null)),
          DictV(4, <<IntV(5), Null, NumStr(3), FloatV(25)>>),
          ListV(<<IntV(1), IntV(2), IntV(3)>>), Null, IntV(3)}

\* what a caller may put under ranks[pillar]
LegacyRankVals == Scalars \cup {ListV(Uniform4(IntV(1)))}

\* what a caller may put under <pillar>_1..4
LooseVals == {Uniform4(v) : v \in Scalars} \cup {<<IntV(5), Null, NumStr(3), FloatV(25)>>}

Everywhere(v) == PillarDict([p \in PillarSet |-> v])

\* payloads with one recognised key present, the same value for every pillar
Singles ==
    {[EmptyPayload EXCEPT !.ratings = NonDict],
     [EmptyPayload EXCEPT !.ranks_per_subtheme = NonDict],
     [EmptyPayload EXCEPT !.scores = NonDict],
     [EmptyPayload EXCEPT !.ranks = NonDict]}
    \cup {[EmptyPayload EXCEPT !.ratings = Everywhere(v)] : v \in NewShapeVals}
    \cup {[EmptyPayload EXCEPT !.ranks_per_subtheme = Everywhere(v)] : v \in NewShapeVals}
    \cup {[EmptyPayload EXCEPT !.scores = Everywhere(v)] : v \in LegacyScoreVals}
    \cup {[EmptyPayload EXCEPT !.ranks = Everywhere(v)] : v \in LegacyRankVals}
    \cup {[EmptyPayload EXCEPT !.loose = [p \in PillarSet |-> v]] : v \in LooseVals}

\* the keys of a, and those of b that a lacks
Overlay(a, b) ==
    [kind |-> "dict", email |-> a.email,
     ratings |-> IF a.ratings = Absent THEN b.ratings ELSE a.ratings,
     ranks_per_subtheme |-> IF a.ranks_per_subtheme = Absent
                            THEN b.ranks_per_subtheme ELSE a.ranks_per_subtheme,
     scores |-> IF a.scores = Absent THEN b.scores ELSE a.scores,
     ranks |-> IF a.ranks = Absent THEN b.ranks ELSE a.ranks,
     loose |-> IF a.loose = NoLoose THEN b.loose ELSE a.loose]

\* payloads with at most two recognised keys present
ShapePayloads == {EmptyPayload} \cup {Overlay(a, b) : a \in Singles, b \in Singles}

\* payloads of the new shape whose pillars differ in what they hold
MixedPayloads ==
    {[EmptyPayload EXCEPT !.ratings = PillarDict(ra), !.ranks_per_subtheme = PillarDict(rk)] :
        ra \in [PillarSet -> {Null, ListV(Uniform4(IntV(MaxRating))),
                              ListV(<<IntV(1), IntV(2), IntV(3)>>)}],
        rk \in [PillarSet -> {Null, ListV(<<IntV(4), IntV(3), IntV(2), IntV(1)>>)}]}

RankTemplates == {<<1, 2, 3, 4>>, <<2, 2, 2, 2>>, <<4, 3, 2, 1>>}

IntList(s) == ListV([i \in 1..Len(s) |-> IntV(s[i])])

\* payloads of the new shape: every rating b and every pillar's ranks t, but
\* for one sub-theme, which has rating v and (when one is true) rank 1
GridPayload(b, t, p, i, v, one) ==
    [EmptyPayload EXCEPT
        !.ratings = PillarDict([q \in PillarSet |->
            IntList([j \in 1..4 |-> IF q = p /\ j = i THEN v ELSE b])]),
        !.ranks_per_subtheme = PillarDict([q \in PillarSet |->
            IntList([j \in 1..4 |-> IF q = p /\ j = i /\ one THEN 1 ELSE t[j]])])]

GridPayloads ==
    {GridPayload(b, t, p, i, v, one) :
        b \in Ints, t \in RankTemplates, p \in PillarSet, i \in 1..4,
        v \in Ints, one \in BOOLEAN}

Payloads == ShapePayloads \cup MixedPayloads \cup GridPayloads

-----------------------------------------------------------------------------
(* build_pdf_report *)

NoRequest == [kind |-> "none"]
NoFiles == [f \in 1..MaxRequests |-> "none"]

\* ratings, ranks = normalize_inputs(data)
Normalize ==
    /\ pc = "start"
    /\ LET n == normalize_inputs(payload)
       IN  IF n.raised
           THEN pc' = "raised" /\ UNCHANGED <<ratings, ranks>>
           ELSE pc' = "normalized" /\ ratings' = n.ratings /\ ranks' = n.ranks
    /\ UNCHANGED <<payload, per_pillar, overall, out_pdf, pdf_path, files, builds,
                   sends, delivered, response, served>>

\* _priority_focus_block: per_pillar, overall = find_top_gaps(ratings, ranks)
FindTopGaps ==
    /\ pc = "normalized"
    /\ per_pillar' = find_top_gaps(ratings, ranks).per_pillar
    /\ overall' = find_top_gaps(ratings, ranks).overall
    /\ pc' = "focused"
    /\ UNCHANGED <<payload, ratings, ranks, out_pdf, pdf_path, files, builds,
                   sends, delivered, response, served>>

\* build_pdf_report(payload) called on every payload
InitBuild ==
    /\ pc = "start"
    /\ payload \in Payloads
    /\ ratings = <<>>
    /\ ranks = <<>>
    /\ per_pillar = <<>>
    /\ overall = NoFocus
    /\ out_pdf = 0
    /\ pdf_path = 0
    /\ files = NoFiles
    /\ builds = 1
    /\ sends = 0
    /\ delivered = "none"
    /\ response = 0
    /\ served = 0

NextBuild == Normalize \/ FindTopGaps

SpecBuild == InitBuild /\ [][NextBuild]_vars

-----------------------------------------------------------------------------
(* POST /generate *)

\* str.strip() on the email strings of the model
Strip(s) ==
    CASE s = " " -> ""
      [] s = " a@b " -> "a@b"
      [] OTHER -> s

\* "@" in email
HasAt(s) == s \in {"a@b", " a@b ", "@"}

EmailOfMutantPlaceholder(data) ==
    IF data.kind # "dict" \/ data.email.t = "int" THEN [ok |-> FALSE, s |-> ""]
    ELSE IF data.email.t = "absent" \/ data.email.s = "" THEN [ok |-> TRUE, s |-> "a@b"]
    ELSE [ok |-> TRUE, s |-> Strip(data.email.s)]

\* (data.get("email") or "").strip(); a list body has no .get and a
\* non-string email has no .strip(): both raise AttributeError
EmailOf(data) ==
    IF data.kind # "dict" \/ data.email.t = "int" THEN [ok |-> FALSE, s |-> ""]
    ELSE IF data.email.t = "absent" THEN [ok |-> TRUE, s |-> ""]
    ELSE [ok |-> TRUE, s |-> Strip(data.email.s)]

\* 0 when _normalise_payload returns data, else the status it is rejected with
_normalise_payload(data) ==
    IF ~EmailOf(data).ok THEN 422
    ELSE IF EmailOf(data).s = "" \/ ~HasAt(EmailOf(data).s) THEN 422
    ELSE 0

\* the check of user_email that follows _normalise_payload
UserEmailMissing(data) == ~EmailOf(data).ok \/ EmailOf(data).s = ""

Emails ==
    {EmailAbsent, EmailNonString, EmailStr(""), EmailStr(" "), EmailStr("noat"),
     EmailStr("a@b"), EmailStr(" a@b ")}

\* the bodies requests carry: no recognised key, one weak and important
\* sub-theme among strong ones, ratings above the scale, a non-numeric value
Bodies ==
    {EmptyPayload,
     GridPayload(MaxRating, <<1, 2, 3, 4>>, "health", 2, 0, TRUE),
     GridPayload(MaxVal, <<2, 2, 2, 2>>, "self", 3, MaxStrength, FALSE),
     [EmptyPayload EXCEPT !.loose = [p \in PillarSet |-> Uniform4(BadStr)]]}

NotJson == [kind |-> "notjson"]
JsonList == [kind |-> "list"]

Requests == {NotJson, JsonList} \cup {[b EXCEPT !.email = e] : b \in Bodies, e \in Emails}

Respond(status) ==
    /\ response' = status
    /\ served' = served + 1
    /\ pc' = "idle"

\* a request arrives; the handler's locals start afresh
Receive ==
    /\ pc = "idle"
    /\ served < MaxRequests
    /\ payload' \in Requests
    /\ pc' = "parse"
    /\ ratings' = <<>>
    /\ ranks' = <<>>
    /\ per_pillar' = <<>>
    /\ overall' = NoFocus
    /\ out_pdf' = 0
    /\ pdf_path' = 0
    /\ builds' = 0
    /\ sends' = 0
    /\ delivered' = "none"
    /\ response' = 0
    /\ UNCHANGED <<files, served>>

\* payload = await request.json(), then json.loads(body), else 400.  The
\* debugging print of lines 217-218 is mis-indented in the file (app.py does
\* not compile with it) and changes no state: it is left out.
ParseBody ==
    /\ pc = "parse"
    /\ IF payload.kind = "notjson"
       THEN Respond(400)
       ELSE pc' = "normalise" /\ UNCHANGED <<response, served>>
    /\ UNCHANGED <<payload, ratings, ranks, per_pillar, overall, out_pdf, pdf_path,
                   files, builds, sends, delivered>>

\* data = _normalise_payload(payload) and the check of user_email
NormalisePayload ==
    /\ pc = "normalise"
    /\ IF _normalise_payload(payload) # 0
       THEN Respond(_normalise_payload(payload))
       ELSE IF UserEmailMissing(payload)
       THEN Respond(422)
       ELSE pc' = "build" /\ UNCHANGED <<response, served>>
    /\ UNCHANGED <<payload, ratings, ranks, per_pillar, overall, out_pdf, pdf_path,
                   files, builds, sends, delivered>>

\* _call_report_builder, 2-arg style: NamedTemporaryFile(delete=False) leaves
\* an empty file, then builder(payload, out_pdf) runs
CallReportBuilder ==
    /\ pc = "build"
    /\ out_pdf' = served + 1
    /\ files' = [files EXCEPT ![served + 1] = "empty"]
    /\ builds' = builds + 1
    /\ pc' = "start"
    /\ UNCHANGED <<payload, ratings, ranks, per_pillar, overall, pdf_path, sends,
                   delivered, response, served>>

\* the rest of build_pdf_report: doc.build(story) and the write to out_pdf,
\* or an exception of the plotting or PDF library
Render ==
    /\ pc = "focused"
    /\ out_pdf # 0
    /\ \/ pc' = "written" /\ files' = [files EXCEPT ![out_pdf] = "pdf"]
       \/ pc' = "render_failed" /\ UNCHANGED files
    /\ UNCHANGED <<payload, ratings, ranks, per_pillar, overall, out_pdf, pdf_path,
                   builds, sends, delivered, response, served>>

\* _call_report_builder returns out_pdf when the file exists
BuilderReturned ==
    /\ pc = "written"
    /\ IF files[out_pdf] # "none"
       THEN pdf_path' = out_pdf /\ pc' = "send" /\ UNCHANGED <<response, served>>
       ELSE Respond(500) /\ UNCHANGED pdf_path
    /\ UNCHANGED <<payload, ratings, ranks, per_pillar, overall, out_pdf, files,
                   builds, sends, delivered>>

BuildFailedMutantSends ==
    /\ pc \in {"raised", "render_failed"}
    /\ out_pdf # 0
    /\ pdf_path' = out_pdf
    /\ pc' = "send"
    /\ UNCHANGED <<payload, ratings, ranks, per_pillar, overall, out_pdf, files,
                   builds, sends, delivered, response, served>>

\* except Exception around _call_report_builder: HTTP 500
BuildFailed ==
    /\ pc \in {"raised", "render_failed"}
    /\ out_pdf # 0
    /\ Respond(500)
    /\ UNCHANGED <<payload, ratings, ranks, per_pillar, overall, out_pdf, pdf_path,
                   files, builds, sends, delivered>>

SendEmailMutantSoft ==
    /\ pc = "send"
    /\ sends' = sends + 1
    /\ \/ delivered' = files[pdf_path]
       \/ UNCHANGED delivered
    /\ pc' = "cleanup"
    /\ UNCHANGED <<payload, ratings, ranks, per_pillar, overall, out_pdf, pdf_path,
                   files, builds, response, served>>

\* send_email_with_attachment: it sends the file at pdf_path, or raises (SMTP
\* not configured, login or transport error), which the handler turns into 500
SendEmail ==
    /\ pc = "send"
    /\ sends' = sends + 1
    /\ \/ delivered' = files[pdf_path] /\ pc' = "cleanup" /\ UNCHANGED <<response, served>>
       \/ Respond(500) /\ UNCHANGED delivered
    /\ UNCHANGED <<payload, ratings, ranks, per_pillar, overall, out_pdf, pdf_path,
                   files, builds>>

\* os.remove(pdf_path) when it is under /tmp and exists, then the 200 response
Cleanup ==
    /\ pc = "cleanup"
    /\ files' = [files EXCEPT ![pdf_path] = "none"]
    /\ Respond(200)
    /\ UNCHANGED <<payload, ratings, ranks, per_pillar, overall, out_pdf, pdf_path,
                   builds, sends, delivered>>

Init ==
    /\ pc = "idle"
    /\ payload = NoRequest
    /\ ratings = <<>>
    /\ ranks = <<>>
    /\ per_pillar = <<>>
    /\ overall = NoFocus
    /\ out_pdf = 0
    /\ pdf_path = 0
    /\ files = NoFiles
    /\ builds = 0
    /\ sends = 0
    /\ delivered = "none"
    /\ response = 0
    /\ served = 0

Next ==
    \/ Receive
    \/ ParseBody
    \/ NormalisePayload
    \/ CallReportBuilder
    \/ Normalize
    \/ FindTopGaps
    \/ Render
    \/ BuilderReturned
    \/ BuildFailed
    \/ SendEmail
    \/ Cleanup

Spec == Init /\ [][Next]_vars

-----------------------------------------------------------------------------
(* Properties *)

Returned == pc \in {"normalized", "focused"}

\* the gap of sub-theme i of pillar p in the normalized submission
GapOf(p, i) == compute_priority_gap(ratings[p][i], ranks[p][i])

\* the position of a pillar in PILLARS
Pos(p) == CHOOSE k \in 1..Len(PILLARS) : PILLARS[k] = p

\* the body has no email field, or an empty one
NoEmail(data) ==
    /\ data.kind = "dict"
    /\ data.email \in {EmailAbsent, EmailStr("")}

\* C1: a /generate request whose body has no email field, or an empty one,
\* is answered 422 straight after parsing: it never invokes the report
\* builder, creates no PDF file, computes nothing and attempts no send.
C1_MissingEmailRejected ==
    NoEmail(payload) =>
        /\ pc \in {"parse", "normalise", "idle"}
        /\ pc = "idle" => response = 422
        /\ builds = 0
        /\ out_pdf = 0
        /\ pdf_path = 0
        /\ ratings = <<>>
        /\ sends = 0
        /\ delivered = "none"

C1_Witness ==
    /\ NoEmail(payload)
    /\ payload.ratings # Absent
    /\ pc = "idle"
    /\ response = 422

\* C2 (as claimed): normalize_inputs never raises, whatever the payload holds
\* under the recognised keys.
C2_NeverRaises == pc # "raised"

\* C3 (as claimed): what normalize_inputs returns holds the four pillars with
\* four entries each, every score within 0..25 and every rank within 1..4.
C3_OutputInRange ==
    Returned =>
        /\ DOMAIN ratings = PillarSet
        /\ DOMAIN ranks = PillarSet
        /\ \A p \in PillarSet :
            /\ Len(ratings[p]) = 4
            /\ Len(ranks[p]) = 4
            /\ \A i \in 1..4 :
                /\ ratings[p][i] \in 0..MaxStrength
                /\ ranks[p][i] \in 1..4

\* C4 (as claimed): for every score in 0..25 and every rank in 1..4 the gap
\* compute_priority_gap gives lies in 0..25.
C4_GapInRangeOriginal ==
    pc = "focused" =>
        \A p \in PillarSet : \A i \in 1..4 :
            ratings[p][i] \in 0..MaxStrength /\ ranks[p][i] \in 1..4
                => GapOf(p, i) \in 0..MaxStrength

\* C4 (amended): for every rating in 0..5, the scale compute_priority_gap
\* works on, and every rank in 1..4 the gap lies in 0..25.
C4_GapInRange ==
    pc = "focused" =>
        \A p \in PillarSet : \A i \in 1..4 :
            ratings[p][i] \in 0..MaxRating /\ ranks[p][i] \in 1..4
                => GapOf(p, i) \in 0..MaxStrength

C4_Witness ==
    /\ pc = "focused"
    /\ \E p \in PillarSet : \E i \in 1..4 : ratings[p][i] = 0 /\ ranks[p][i] = 1
    /\ \E p \in PillarSet : \E i \in 1..4 : ratings[p][i] = MaxRating /\ ranks[p][i] = 4
    /\ \E p \in PillarSet : \E i \in 1..4 : ratings[p][i] = MaxRating /\ ranks[p][i] = 2

AllAt(v) == \A p \in PillarSet : \A i \in 1..4 : ratings[p][i] = v

\* C5 (as claimed): a sub-theme whose score is 25 has gap 0 for every rank,
\* and a submission with all 16 scores at 25 has 16 gaps of 0.
C5_MaxStrengthZeroGapOriginal ==
    pc = "focused" =>
        /\ \A p \in PillarSet : \A i \in 1..4 :
            ratings[p][i] = MaxStrength => GapOf(p, i) = 0
        /\ AllAt(MaxStrength) => \A k \in 1..Len(PILLARS) : per_pillar[k].gap = 0

\* C5 (amended): a sub-theme at maximum strength, which is rating 5
\* (rating_to_strength(5) = 25), has gap 0 for every rank; a submission with
\* all 16 ratings at 5 has 16 gaps of 0 and an overall largest gap of 0.
C5_MaxStrengthZeroGap ==
    pc = "focused" =>
        /\ \A p \in PillarSet : \A i \in 1..4 :
            rating_to_strength(ratings[p][i]) = MaxStrength => GapOf(p, i) = 0
        /\ AllAt(MaxRating) =>
            /\ \A p \in PillarSet : \A i \in 1..4 : GapOf(p, i) = 0
            /\ \A k \in 1..Len(PILLARS) : per_pillar[k].gap = 0
            /\ overall.gap = 0

C5_Witness ==
    /\ pc = "focused"
    /\ AllAt(MaxRating)
    /\ ranks["health"] = <<4, 3, 2, 1>>
    /\ ranks["social"] = <<4, 3, 1, 1>>
    /\ overall = Focus("health", 0, 0)

\* C6 (as claimed): a sub-theme with score 0 and rank 1 has gap exactly 25.
C6_WeakestGapOriginal ==
    pc = "focused" =>
        \A p \in PillarSet : \A i \in 1..4 :
            ratings[p][i] = 0 /\ ranks[p][i] = 1 => GapOf(p, i) = MaxStrength

\* C6 (amended): a sub-theme with rating 0 and rank 1 has gap exactly 20, and
\* no sub-theme with a rating in 0..5 and a rank in 1..4 has a larger gap.
C6_WeakestGap ==
    pc = "focused" =>
        \A p \in PillarSet : \A i \in 1..4 :
            /\ ratings[p][i] = 0 /\ ranks[p][i] = 1 => GapOf(p, i) = 20
            /\ ratings[p][i] \in 0..MaxRating /\ ranks[p][i] \in 1..4 => GapOf(p, i) <= 20

C6_Witness ==
    /\ pc = "focused"
    /\ ratings["wealth"][3] = 0
    /\ ranks["wealth"][3] = 1
    /\ overall = Focus("wealth", 2, 20)

\* sub-theme i of pillar p is the only one below maximum strength: rating 0
\* and rank 1, all others at rating 5
OnlyWeak(p, i) ==
    /\ ratings[p][i] = 0
    /\ ranks[p][i] = 1
    /\ \A q \in PillarSet : \A j \in 1..4 : (q # p \/ j # i) => ratings[q][j] = MaxRating

\* C7 (as claimed): for every output of normalize_inputs the overall top focus
\* is one of the 16 sub-themes, its gap is the maximum of all 16, among ties
\* it is the first in pillar order and sub-theme position, and a lone
\* sub-theme with rating 0 and rank 1 among maximally strong ones is chosen.
C7_OverallTopFocus ==
    pc = "focused" =>
        /\ overall.pillar \in PillarSet
        /\ overall.idx \in 0..3
        /\ overall.gap = GapOf(overall.pillar, overall.idx + 1)
        /\ \A p \in PillarSet : \A i \in 1..4 :
            /\ GapOf(p, i) <= overall.gap
            /\ GapOf(p, i) = overall.gap =>
                \/ Pos(overall.pillar) < Pos(p)
                \/ p = overall.pillar /\ overall.idx + 1 <= i
            /\ OnlyWeak(p, i) => overall.pillar = p /\ overall.idx = i - 1

\* C8: the per-pillar top focus of each pillar is the sub-theme of that pillar
\* with the maximum gap, the one at the lowest position among ties.
C8_PerPillarTopFocus ==
    pc = "focused" =>
        /\ Len(per_pillar) = Len(PILLARS)
        /\ \A k \in 1..Len(PILLARS) :
            LET p == PILLARS[k]
                top == per_pillar[k]
            IN  /\ top.pillar = p
                /\ top.idx \in 0..3
                /\ top.gap = GapOf(p, top.idx + 1)
                /\ \A i \in 1..4 : GapOf(p, i) <= top.gap
                /\ \A i \in 1..4 : i < top.idx + 1 => GapOf(p, i) < top.gap

C8_Witness ==
    /\ pc = "focused"
    /\ per_pillar[3].idx = 1
    /\ GapOf("self", 3) = per_pillar[3].gap
    /\ GapOf("self", 4) = per_pillar[3].gap
    /\ GapOf("self", 1) < per_pillar[3].gap

\* the payload gives pillar p the single pillar-level rank r and no
\* per-sub-theme ranks
PillarRankOnly(p, r) ==
    /\ payload.ranks.t = "pillars"
    /\ payload.ranks.m[p] = IntV(r)
    /\ payload.ranks_per_subtheme = Absent

\* the payload holds no recognised key but `ranks`
NothingButRanks ==
    /\ payload.ratings = Absent
    /\ payload.scores = Absent
    /\ payload.loose = NoLoose

\* C9 (as claimed): a pillar given only the pillar-level rank r gets the ranks
\* [r, r, r, r], and normalize_inputs does not fail.
C9_BroadcastOriginal ==
    \A p \in PillarSet : \A r \in 1..4 :
        PillarRankOnly(p, r) =>
            /\ NothingButRanks => pc # "raised"
            /\ Returned => ranks[p] = <<r, r, r, r>>

\* C9 (amended): a pillar given only the pillar-level rank r gets the neutral
\* ranks [2, 2, 2, 2] whatever r is, and normalize_inputs does not fail when
\* the payload holds no other recognised key.
C9_PillarRankNeutral ==
    \A p \in PillarSet : \A r \in 1..4 :
        PillarRankOnly(p, r) =>
            /\ NothingButRanks => pc # "raised"
            /\ Returned => ranks[p] = <<2, 2, 2, 2>>

C9_Witness ==
    /\ pc = "normalized"
    /\ PillarRankOnly("social", 4)
    /\ NothingButRanks
    /\ ranks["social"] = <<2, 2, 2, 2>>

\* the canonical output as a payload: ratings under `ratings`, ranks under
\* `ranks_per_subtheme`
Canonical(ra, rk) ==
    [EmptyPayload EXCEPT
        !.ratings = PillarDict([p \in PillarSet |-> IntList(ra[p])]),
        !.ranks_per_subtheme = PillarDict([p \in PillarSet |-> IntList(rk[p])])]

\* C10: normalize_inputs applied to its own output, given back as a payload,
\* returns the same ratings and the same ranks for all four pillars.
C10_Idempotent ==
    Returned =>
        normalize_inputs(Canonical(ratings, ranks)) =
            [raised |-> FALSE, ratings |-> ratings, ranks |-> ranks]

C10_Witness ==
    /\ pc = "normalized"
    /\ payload.ratings = Absent
    /\ payload.ranks_per_subtheme = Absent
    /\ ratings["health"] = <<5, 0, 3, 2>>
    /\ ranks["health"] = <<2, 2, 2, 2>>

\* the request has been answered
Answered == pc = "idle" /\ served > 0

\* the builder was invoked and _call_report_builder returned no path
BuildDidFail == builds > 0 /\ pdf_path = 0

\* the PDF was built and send_email_with_attachment raised
SendDidFail == pdf_path # 0 /\ sends > 0 /\ delivered = "none"

\* C11: a request normalizes, renders, sends and responds in that order: a
\* send is attempted only once the builder has returned the path of an
\* existing PDF, a builder that raises ends the request with 500 and no send
\* attempt, and nothing but a complete PDF is ever delivered.
C11_SendOnlyAfterBuild ==
    /\ pc \in {"focused", "written", "render_failed"} => ratings # <<>> /\ per_pillar # <<>>
    /\ pc = "send" => ratings # <<>> /\ pdf_path = out_pdf /\ files[pdf_path] = "pdf"
    /\ sends > 0 =>
        /\ builds = 1
        /\ pdf_path # 0
        /\ per_pillar # <<>>
        /\ pc \in {"cleanup", "idle"}
    /\ pc \in {"raised", "render_failed"} => sends = 0 /\ pdf_path = 0
    /\ Answered /\ BuildDidFail => response = 500 /\ sends = 0
    /\ Answered /\ response = 200 => sends = 1 /\ delivered = "pdf"
    /\ delivered \in {"none", "pdf"}

C11_Witness ==
    /\ Answered
    /\ BuildDidFail
    /\ per_pillar # <<>>
    /\ files[out_pdf] = "empty"
    /\ response = 500

\* C12 (as claimed): when the PDF was built and the send raised, the request
\* is still answered with the success response.
C12_SoftFailureOriginal == Answered /\ SendDidFail => response = 200

\* C12 (amended): when the PDF was built and the send raised, the request is
\* answered 500 (Email send failed).
C12_SendFailureIs500 == Answered /\ SendDidFail => response = 500

C12_Witness ==
    /\ Answered
    /\ SendDidFail
    /\ files[pdf_path] = "pdf"
    /\ response = 500

\* C13 (as claimed): once a request is answered, the temp file
\* _call_report_builder created for it has been removed.
C13_TempFileRemoved == Answered /\ out_pdf # 0 => files[out_pdf] = "none"

====
